---- MODULE Spec2Model ----
(***************************************************************************)
(* The connection/session lifecycle of the VoiceAgent component            *)
(* (src/cloud-companion/src/components/VoiceAgent.tsx).                    *)
(*                                                                         *)
(* A JavaScript string is a sequence of tokens: single characters where    *)
(* the code inspects them (trim, the digits of a close code), and whole    *)
(* fixed phrases where it only copies them.  A step of the model is one    *)
(* task of the UI thread: a vendor callback, a user gesture with the       *)
(* handler it runs, or the settling of a getUserMedia() promise together   *)
(* with the microtasks that follow it.                                     *)
(***************************************************************************)
EXTENDS Integers, Sequences, FiniteSets, TLC

VARIABLES
    phase,              \* "initial" (rendered, effects not yet run), "mounted", "unmounted"
    msClientRef,        \* msClientRef.current: "null" or "client"
    inputText,          \* useState('')
    isListening,        \* useState(false): SessionState, TRUE = listening
    transcript,         \* useState(''): PartialTranscript
    messages,           \* useState([]): sequence of [type, text]
    permissionGranted,  \* useState(false)
    connectionError,    \* useState(null): NULL or Str(s)
    sessionActive,      \* the vendor client holds a session
    probes,             \* getUserMedia() promises not yet settled, by caller
    clientsCreated,     \* calls of Millis.createClient so far
    registrations,      \* handlers registered with the client, per event name
    last,               \* the step that led here: operation, inputs, client calls
    watch               \* the operations whose steps `last` records; never changes

vars == <<phase, msClientRef, inputText, isListening, transcript, messages,
          permissionGranted, connectionError, sessionActive, probes,
          clientsCreated, registrations, last, watch>>

-----------------------------------------------------------------------------
(* Bounds of the model *)

MaxMsgs == 2
MaxStartProbes == 1

\* Texts a vendor event carries, and texts the user types: the empty string,
\* blanks only, and a word followed by a blank.
EventTexts == { <<>>, <<"a", " ">> }
InputTexts == { <<>>, <<" ">>, <<"a", " ">> }
IsFinalValues == { "true", "false", "undefined" }
CloseCodes == { 1000, 1006 }
CloseReasons == { <<>>, <<"g", "o", "n", "e">> }

-----------------------------------------------------------------------------
(* Values *)

NULL == [isNull |-> TRUE, str |-> <<>>]
Str(s) == [isNull |-> FALSE, str |-> s]

NormalClosure == 1000

EventNames == { "onopen", "onready", "onaudio", "onresponsetext", "ontranscript",
                "useraudioready", "onsessionended", "onclose", "onerror" }

MicrophoneAdvisory ==
    <<"Microphone access is required for the voice agent to work.">>
ClientInitFailed ==
    <<"Client initialization failed. Please refresh the page.">>
StartFailed ==
    <<"Failed to start the voice agent. Please try again.">>
ConnectionErrored ==
    <<"An error occurred with the voice connection. Please try again.">>

\* JavaScript truthiness of payload.is_final (boolean | undefined) and of a string.
Truthy(v) == v = "true"
NonEmpty(s) == s # <<>>

DigitChar(d) == <<"0", "1", "2", "3", "4", "5", "6", "7", "8", "9">>[d + 1]

RECURSIVE NumberToString(_)
NumberToString(n) ==
    IF n < 10 THEN <<DigitChar(n)>>
    ELSE NumberToString(n \div 10) \o <<DigitChar(n % 10)>>

IsSpace(c) == c = " "

RECURSIVE TrimStart(_)
TrimStart(s) ==
    IF s # <<>> /\ IsSpace(Head(s)) THEN TrimStart(Tail(s)) ELSE s

RECURSIVE TrimEnd(_)
TrimEnd(s) ==
    IF s # <<>> /\ IsSpace(s[Len(s)]) THEN TrimEnd(SubSeq(s, 1, Len(s) - 1)) ELSE s

Trim(s) == TrimEnd(TrimStart(s))

Contains(s, sub) ==
    \E i \in 0..(Len(s) - Len(sub)) : SubSeq(s, i + 1, i + Len(sub)) = sub

IsPrefix(s, t) == Len(s) <= Len(t) /\ SubSeq(t, 1, Len(s)) = s

\* The record of a step; the fields an operation does not use keep these values.
\* A stop step also records whether the step before it was a stop, and whether
\* that one stopped a listening session.
Step(op) ==
    [op |-> op, text |-> <<>>, fin |-> "undefined", code |-> 0, reason |-> <<>>,
     granted |-> FALSE, threw |-> FALSE, calls |-> <<>>, wasListening |-> FALSE,
     afterStop |-> FALSE, afterStopOfSession |-> FALSE]

\* `last` is a history variable: it records the steps of the operations in
\* `watch` and shows any other step as "other", with the client calls it made.
Note(step) ==
    IF step.op \in watch THEN step ELSE [Step("other") EXCEPT !.calls = step.calls]

Called(calls, operation) == \E i \in 1..Len(calls) : calls[i] = operation

-----------------------------------------------------------------------------
(* The component's React state as one record, as a handler sees and sets it *)

UI ==
    [inputText |-> inputText, isListening |-> isListening,
     transcript |-> transcript, messages |-> messages,
     permissionGranted |-> permissionGranted,
     connectionError |-> connectionError]

SetUI(u) ==
    /\ inputText' = u.inputText
    /\ isListening' = u.isListening
    /\ transcript' = u.transcript
    /\ messages' = u.messages
    /\ permissionGranted' = u.permissionGranted
    /\ connectionError' = u.connectionError

InitialUI ==
    [inputText |-> <<>>, isListening |-> FALSE, transcript |-> <<>>,
     messages |-> <<>>, permissionGranted |-> FALSE, connectionError |-> NULL]

-----------------------------------------------------------------------------
(* The handlers setupEventListeners registers (lines 57-112), each a        *)
(* function of the state it is applied to                                   *)

\* Fault: the open handler also marks the component as listening.
onopenListens(u) == [u EXCEPT !.connectionError = NULL, !.isListening = TRUE]

onopen(u) == [u EXCEPT !.connectionError = NULL]

onready(u) == u

onaudio(u) == u

\* Fault: the agent's text is appended only when it is non-empty.
onresponsetextSkipsEmpty(u, text, payload) ==
    IF Truthy(payload.is_final) /\ NonEmpty(text)
    THEN [u EXCEPT !.messages = Append(@, [type |-> "agent", text |-> text])]
    ELSE u

onresponsetext(u, text, payload) ==
    IF Truthy(payload.is_final)
    THEN [u EXCEPT !.messages = Append(@, [type |-> "agent", text |-> text])]
    ELSE u

\* Fault: the check of the text is missing, so an empty final transcript
\* is appended too.
ontranscriptNoTextCheck(u, text, payload) ==
    LET shown == [u EXCEPT !.transcript = text]
    IN  IF Truthy(payload.is_final)
        THEN [shown EXCEPT !.messages = Append(@, [type |-> "user", text |-> text])]
        ELSE shown

\* Fault: the check of is_final is missing, so a partial transcript is
\* appended too.
ontranscriptIgnoresFinal(u, text, payload) ==
    LET shown == [u EXCEPT !.transcript = text]
    IN  IF NonEmpty(text)
        THEN [shown EXCEPT !.messages = Append(@, [type |-> "user", text |-> text])]
        ELSE shown

\* Fault: a final transcript that is appended clears the partial transcript.
ontranscriptClearsOnFinal(u, text, payload) ==
    IF Truthy(payload.is_final) /\ NonEmpty(text)
    THEN [u EXCEPT !.transcript = <<>>,
                   !.messages = Append(@, [type |-> "user", text |-> text])]
    ELSE [u EXCEPT !.transcript = text]

ontranscript(u, text, payload) ==
    LET shown == [u EXCEPT !.transcript = text]
    IN  IF Truthy(payload.is_final) /\ NonEmpty(text)
        THEN [shown EXCEPT !.messages = Append(@, [type |-> "user", text |-> text])]
        ELSE shown

useraudioready(u) == u

onsessionended(u) == [u EXCEPT !.isListening = FALSE]

\* Fault: the reason is used as it comes, without the 'Unknown' fallback.
ClosedUnexpectedlyNoFallback(event) ==
    <<"Connection closed unexpectedly (code: ">> \o NumberToString(event.code)
        \o <<"). Reason: ">> \o event.reason

\* `Connection closed unexpectedly (code: ${event.code}). Reason: ${event.reason || 'Unknown'}`
ClosedUnexpectedly(event) ==
    <<"Connection closed unexpectedly (code: ">> \o NumberToString(event.code)
        \o <<"). Reason: ">>
        \o (IF NonEmpty(event.reason) THEN event.reason ELSE <<"Unknown">>)

\* Fault: the check of the close code is missing.
oncloseAnyCode(u, event) ==
    [u EXCEPT !.isListening = FALSE,
              !.connectionError = Str(<<"Connection closed unexpectedly (code: ">>
                  \o NumberToString(event.code) \o <<"). Reason: ">>
                  \o (IF NonEmpty(event.reason) THEN event.reason ELSE <<"Unknown">>))]

onclose(u, event) ==
    LET idle == [u EXCEPT !.isListening = FALSE]
    IN  IF event.code # NormalClosure
        THEN [idle EXCEPT !.connectionError = Str(ClosedUnexpectedly(event))]
        ELSE idle

\* Fault: the error handler leaves isListening as it is.
onerrorKeepsListening(u) ==
    [u EXCEPT !.connectionError = Str(ConnectionErrored)]

onerror(u) ==
    [u EXCEPT !.isListening = FALSE, !.connectionError = Str(ConnectionErrored)]

\* The handler registered for event name e, applied to the event's arguments.
Handle(e, u, arg) ==
    CASE e = "onopen" -> onopen(u)
      [] e = "onready" -> onready(u)
      [] e = "onaudio" -> onaudio(u)
      [] e = "onresponsetext" -> onresponsetext(u, arg.text, arg.payload)
      [] e = "ontranscript" -> ontranscript(u, arg.text, arg.payload)
      [] e = "useraudioready" -> useraudioready(u)
      [] e = "onsessionended" -> onsessionended(u)
      [] e = "onclose" -> onclose(u, arg.event)
      [] e = "onerror" -> onerror(u)

\* The client calls every handler registered for the event, in order.
RECURSIVE Dispatch(_, _, _, _)
Dispatch(e, n, u, arg) ==
    IF n = 0 THEN u ELSE Dispatch(e, n - 1, Handle(e, u, arg), arg)

NoArg == [text |-> <<>>, payload |-> [is_final |-> "undefined"],
          event |-> [code |-> 0, reason |-> <<>>]]

\* A session lasts from start() to stop(), a close or an error (spec, glossary).
EndsSession(e) == e \in {"onclose", "onerror"}

\* Fault: the error handler starts the client again.
HandlerCallsRestarts(e) == IF e = "onerror" THEN <<"start">> ELSE <<>>

\* The calls of the client a handler makes: none of them makes any
\* (lines 62-111).
HandlerCalls(e) == <<>>

\* The vendor client fires event e: one task of the UI thread.
Fire(e, arg, step) ==
    /\ phase = "mounted"
    /\ registrations[e] > 0
    /\ LET u == Dispatch(e, registrations[e], UI, arg)
       IN  /\ Len(u.messages) <= MaxMsgs
           /\ SetUI(u)
    /\ sessionActive' = IF Called(HandlerCalls(e), "start") THEN TRUE
                        ELSE IF EndsSession(e) THEN FALSE
                        ELSE sessionActive
    /\ last' = Note([step EXCEPT !.calls = HandlerCalls(e)])
    /\ UNCHANGED <<watch, phase, msClientRef, probes, clientsCreated,
                   registrations>>

OnOpen == Fire("onopen", NoArg, Step("onopen"))

OnReady == Fire("onready", NoArg, Step("onready"))

OnAudio == Fire("onaudio", NoArg, Step("onaudio"))

OnResponseText ==
    \E text \in EventTexts, fin \in IsFinalValues :
        Fire("onresponsetext",
             [NoArg EXCEPT !.text = text, !.payload = [is_final |-> fin]],
             [Step("onresponsetext") EXCEPT !.text = text, !.fin = fin])

OnTranscript ==
    \E text \in EventTexts, fin \in IsFinalValues :
        Fire("ontranscript",
             [NoArg EXCEPT !.text = text, !.payload = [is_final |-> fin]],
             [Step("ontranscript") EXCEPT !.text = text, !.fin = fin])

UserAudioReady == Fire("useraudioready", NoArg, Step("useraudioready"))

OnSessionEnded == Fire("onsessionended", NoArg, Step("onsessionended"))

OnClose ==
    \E code \in CloseCodes, reason \in CloseReasons :
        Fire("onclose",
             [NoArg EXCEPT !.event = [code |-> code, reason |-> reason]],
             [Step("onclose") EXCEPT !.code = code, !.reason = reason,
                                     !.wasListening = isListening])

OnError == Fire("onerror", NoArg, Step("onerror"))

-----------------------------------------------------------------------------
(* Initial state: the component has rendered once, its effects have not run *)

Operations ==
    EventNames \cup {"mount", "unmount", "detached", "probe", "start",
                     "start-await", "start-resume", "stop", "submit", "input"}

InitWatching(ops) ==
    /\ watch = ops
    /\ phase = "initial"
    /\ msClientRef = "null"
    /\ inputText = <<>>
    /\ isListening = FALSE
    /\ transcript = <<>>
    /\ messages = <<>>
    /\ permissionGranted = FALSE
    /\ connectionError = NULL
    /\ sessionActive = FALSE
    /\ probes = [mount |-> 0, start |-> 0]
    /\ clientsCreated = 0
    /\ registrations = [e \in EventNames |-> 0]
    /\ last = Step("init")

Init == InitWatching(Operations)

-----------------------------------------------------------------------------
(* The mount effect and its cleanup (lines 19-37), on the resources they    *)
(* touch: r = [ref, created, regs, probes, active, calls]                   *)

\* setupEventListeners: one handler per event name, unless the ref is null.
setupEventListeners(ref, regs) ==
    IF ref = "null" THEN regs ELSE [e \in EventNames |-> regs[e] + 1]

\* Fault: the check of msClientRef.current is missing, so every run of the
\* effect creates a client and registers the handlers with it.
MountEffectAlwaysCreates(r) ==
    [r EXCEPT !.ref = "client", !.created = @ + 1,
              !.regs = setupEventListeners("client", @),
              !.probes = @ + 1]

\* Lines 20-30: create the client once, then probe the microphone.
MountEffect(r) ==
    LET made == IF r.ref = "null"
                THEN [r EXCEPT !.ref = "client", !.created = @ + 1,
                               !.regs = setupEventListeners("client", @)]
                ELSE r
    IN  [made EXCEPT !.probes = @ + 1]

\* The effect has no dependencies, so the cleanup closes over the first
\* render's isListening, which is useState(false)'s initial value.
CleanupIsListening == FALSE

\* Lines 32-36.
MountCleanup(r, listening) ==
    IF r.ref # "null" /\ listening
    THEN [r EXCEPT !.active = FALSE, !.calls = Append(@, "stop")]
    ELSE r

Resources ==
    [ref |-> msClientRef, created |-> clientsCreated, regs |-> registrations,
     probes |-> probes.mount, active |-> sessionActive, calls |-> <<>>]

\* The first commit runs the effect; under React's StrictMode it runs the
\* effect, its cleanup and the effect again, in the same task.
Mount ==
    /\ phase = "initial"
    /\ \E strict \in BOOLEAN :
         LET once == MountEffect(Resources)
             r == IF strict
                  THEN MountEffect(MountCleanup(once, CleanupIsListening))
                  ELSE once
         IN  /\ msClientRef' = r.ref
             /\ clientsCreated' = r.created
             /\ registrations' = r.regs
             /\ probes' = [probes EXCEPT !.mount = r.probes]
             /\ sessionActive' = r.active
             /\ last' = Note([Step("mount") EXCEPT !.calls = r.calls])
    /\ phase' = "mounted"
    /\ UNCHANGED <<watch, inputText, isListening, transcript, messages,
                   permissionGranted, connectionError>>

\* Lines 20-30 when Millis.createClient returns no client: the ref stays
\* null, setupEventListeners returns at line 58, and the probe still starts.
MountEffectNoClient(r) ==
    LET made == IF r.ref = "null"
                THEN [r EXCEPT !.created = @ + 1,
                               !.regs = setupEventListeners("null", @)]
                ELSE r
    IN  [made EXCEPT !.probes = @ + 1]

\* The first commit when the vendor's createClient yields no client.
MountClientMissing ==
    /\ phase = "initial"
    /\ \E strict \in BOOLEAN :
         LET once == MountEffectNoClient(Resources)
             r == IF strict
                  THEN MountEffectNoClient(MountCleanup(once, CleanupIsListening))
                  ELSE once
         IN  /\ msClientRef' = r.ref
             /\ clientsCreated' = r.created
             /\ registrations' = r.regs
             /\ probes' = [probes EXCEPT !.mount = r.probes]
             /\ sessionActive' = r.active
             /\ last' = Note([Step("mount") EXCEPT !.calls = r.calls])
    /\ phase' = "mounted"
    /\ UNCHANGED <<watch, inputText, isListening, transcript, messages,
                   permissionGranted, connectionError>>

\* Unmounting runs the cleanup and discards the component's state; the
\* getUserMedia() promises still pending settle into a discarded component.
Unmount ==
    /\ phase = "mounted"
    /\ LET r == MountCleanup(Resources, CleanupIsListening)
       IN  /\ sessionActive' = r.active
           /\ last' = Note([Step("unmount") EXCEPT !.calls = r.calls,
                                              !.wasListening = isListening])
    /\ phase' = "unmounted"
    /\ SetUI(InitialUI)
    /\ probes' = [mount |-> 0, start |-> 0]
    /\ UNCHANGED <<watch, msClientRef, clientsCreated, registrations>>

\* After the unmount the handlers are still registered with the client, but
\* their state updates go to a discarded component: only the session ends.
DetachedEvent ==
    /\ phase = "unmounted"
    /\ sessionActive
    /\ \E e \in {"onclose", "onerror"} :
         /\ registrations[e] > 0
         /\ last' = Note([Step("detached") EXCEPT !.text = <<e>>])
    /\ sessionActive' = FALSE
    /\ UNCHANGED <<watch, phase, msClientRef, inputText, isListening,
                   transcript, messages, permissionGranted, connectionError,
                   probes, clientsCreated, registrations>>

-----------------------------------------------------------------------------
(* checkMicrophonePermission (lines 43-55): the part that runs once         *)
(* getUserMedia() has settled                                               *)

\* Fault: a denied probe sets no advisory.
checkMicrophonePermissionSilent(u, granted) ==
    IF granted
    THEN [u EXCEPT !.permissionGranted = TRUE]
    ELSE [u EXCEPT !.permissionGranted = FALSE]

checkMicrophonePermission(u, granted) ==
    IF granted
    THEN [u EXCEPT !.permissionGranted = TRUE]
    ELSE [u EXCEPT !.connectionError = Str(MicrophoneAdvisory),
                   !.permissionGranted = FALSE]

\* The probe the mount effect started settles.
MountProbeSettles ==
    /\ phase = "mounted"
    /\ probes.mount > 0
    /\ \E granted \in BOOLEAN :
         /\ SetUI(checkMicrophonePermission(UI, granted))
         /\ last' = Note([Step("probe") EXCEPT !.granted = granted])
    /\ probes' = [probes EXCEPT !.mount = @ - 1]
    /\ UNCHANGED <<watch, phase, msClientRef, sessionActive, clientsCreated,
                   registrations>>

-----------------------------------------------------------------------------
(* startVoiceAgent (lines 118-151)                                          *)

\* Fault: isListening is set before the client's start() is called, so a
\* throwing start() leaves the component listening.
StartSessionListensFirst(u, ref, active, throws) ==
    IF ref = "null"
    THEN [ui |-> [u EXCEPT !.connectionError = Str(ClientInitFailed)],
          active |-> active, calls |-> <<>>]
    ELSE IF throws
    THEN [ui |-> [u EXCEPT !.connectionError = Str(StartFailed),
                           !.isListening = TRUE],
          active |-> active, calls |-> <<"start">>]
    ELSE [ui |-> [u EXCEPT !.connectionError = NULL, !.isListening = TRUE],
          active |-> TRUE, calls |-> <<"start">>]

\* Fault: the check of msClientRef.current (line 124) is missing; start()
\* on the null ref throws a TypeError inside the try block.
StartSessionNoNullCheck(u, ref, active, throws) ==
    IF ref = "null" \/ throws
    THEN [ui |-> [u EXCEPT !.connectionError = Str(StartFailed)],
          active |-> active, calls |-> IF ref = "null" THEN <<>> ELSE <<"start">>]
    ELSE [ui |-> [u EXCEPT !.connectionError = NULL, !.isListening = TRUE],
          active |-> TRUE, calls |-> <<"start">>]

\* Lines 124-150, run on state u with the client ref; `throws` is whether
\* the client's start() throws.  The result is the new state, whether a
\* session is active, and the client calls made.
StartSession(u, ref, active, throws) ==
    IF ref = "null"
    THEN [ui |-> [u EXCEPT !.connectionError = Str(ClientInitFailed)],
          active |-> active, calls |-> <<>>]
    ELSE IF throws
    THEN [ui |-> [u EXCEPT !.connectionError = Str(StartFailed)],
          active |-> active, calls |-> <<"start">>]
    ELSE [ui |-> [u EXCEPT !.connectionError = NULL, !.isListening = TRUE],
          active |-> TRUE, calls |-> <<"start">>]

\* Fault: line 121 sees the value the probe has just set.
PermissionAfterAwaitFresh(atClick, now) == now

\* Line 121 reads permissionGranted from the closure of the render in which
\* the button was clicked, not the value the probe has just set.
PermissionAfterAwait(atClick, now) == atClick

\* The button runs startVoiceAgent while not listening (line 201).  With
\* permission granted the handler runs to its end in this task.
StartGranted ==
    /\ phase = "mounted"
    /\ ~isListening
    /\ permissionGranted
    /\ \E throws \in BOOLEAN :
         LET r == StartSession(UI, msClientRef, sessionActive, throws)
         IN  /\ SetUI(r.ui)
             /\ sessionActive' = r.active
             /\ last' = Note([Step("start") EXCEPT !.calls = r.calls,
                             !.threw = throws /\ r.calls # <<>>])
    /\ UNCHANGED <<watch, phase, msClientRef, probes, clientsCreated,
                   registrations>>

\* Without permission the handler calls checkMicrophonePermission and
\* waits for it (line 120).
StartAwaitsProbe ==
    /\ phase = "mounted"
    /\ ~isListening
    /\ ~permissionGranted
    /\ probes.start < MaxStartProbes
    /\ probes' = [probes EXCEPT !.start = @ + 1]
    /\ last' = Note(Step("start-await"))
    /\ UNCHANGED <<watch, phase, msClientRef, inputText, isListening,
                   transcript, messages, permissionGranted, connectionError,
                   sessionActive, clientsCreated, registrations>>

\* The probe of a waiting start settles, and the handler resumes at line 121
\* in the same task.
StartResumes ==
    /\ phase = "mounted"
    /\ probes.start > 0
    /\ \E granted \in BOOLEAN, throws \in BOOLEAN :
         LET probed == checkMicrophonePermission(UI, granted)
             seen == PermissionAfterAwait(FALSE, probed.permissionGranted)
             r == IF ~seen
                  THEN [ui |-> probed, active |-> sessionActive, calls |-> <<>>]
                  ELSE StartSession(probed, msClientRef, sessionActive, throws)
         IN  /\ throws => r.calls # <<>>
             /\ SetUI(r.ui)
             /\ sessionActive' = r.active
             /\ last' = Note([Step("start-resume") EXCEPT !.granted = granted,
                             !.calls = r.calls, !.threw = throws])
    /\ probes' = [probes EXCEPT !.start = @ - 1]
    /\ UNCHANGED <<watch, phase, msClientRef, clientsCreated, registrations>>

-----------------------------------------------------------------------------
(* stopVoiceAgent (lines 153-158) and handleSubmit (lines 160-166)          *)

\* Fault: the handler toggles isListening instead of clearing it.
stopVoiceAgentToggles(u, ref, active) ==
    [ui |-> [u EXCEPT !.isListening = ~@],
     active |-> IF ref # "null" THEN FALSE ELSE active,
     calls |-> IF ref # "null" THEN <<"stop">> ELSE <<>>]

\* The handler's effect: [ui, active, calls].
stopVoiceAgent(u, ref, active) ==
    [ui |-> [u EXCEPT !.isListening = FALSE],
     active |-> IF ref # "null" THEN FALSE ELSE active,
     calls |-> IF ref # "null" THEN <<"stop">> ELSE <<>>]

RunStop ==
    /\ phase = "mounted"
    /\ LET r == stopVoiceAgent(UI, msClientRef, sessionActive)
       IN  /\ SetUI(r.ui)
           /\ sessionActive' = r.active
           /\ last' = Note([Step("stop") EXCEPT !.calls = r.calls,
                           !.wasListening = isListening,
                           !.afterStop = (last.op = "stop"),
                           !.afterStopOfSession =
                               (last.op = "stop" /\ last.wasListening)])
    /\ UNCHANGED <<watch, phase, msClientRef, probes, clientsCreated,
                   registrations>>

\* The button runs stopVoiceAgent while listening (line 201).
Stop == isListening /\ RunStop

\* stopVoiceAgent called while not listening, which the button never does.
StopWhileIdle == ~isListening /\ RunStop

\* Fault: the new message replaces the list instead of extending it.
handleSubmitReplaces(u) ==
    IF NonEmpty(Trim(u.inputText))
    THEN [u EXCEPT !.messages = <<[type |-> "user", text |-> u.inputText]>>,
                   !.inputText = <<>>]
    ELSE u

\* Fault: the check of the trimmed input is missing.
handleSubmitNoBlankCheck(u) ==
    [u EXCEPT !.messages = Append(@, [type |-> "user", text |-> u.inputText]),
              !.inputText = <<>>]

handleSubmit(u) ==
    IF NonEmpty(Trim(u.inputText))
    THEN [u EXCEPT !.messages = Append(@, [type |-> "user", text |-> u.inputText]),
                   !.inputText = <<>>]
    ELSE u

RunSubmit ==
    /\ phase = "mounted"
    /\ LET u == handleSubmit(UI)
       IN  /\ Len(u.messages) <= MaxMsgs
           /\ SetUI(u)
    /\ last' = Note([Step("submit") EXCEPT !.text = inputText])
    /\ UNCHANGED <<watch, phase, msClientRef, sessionActive, probes,
                   clientsCreated, registrations>>

\* The submit button is disabled while the input is blank (line 221).
Submit == NonEmpty(Trim(inputText)) /\ RunSubmit

\* handleSubmit called while the input is blank, which the form never does.
SubmitWhileBlank == ~NonEmpty(Trim(inputText)) /\ RunSubmit

\* onChange of the input field (line 214).
SetInputText ==
    /\ phase = "mounted"
    /\ \E text \in InputTexts :
         /\ text # inputText
         /\ inputText' = text
         /\ last' = Note([Step("input") EXCEPT !.text = text])
    /\ UNCHANGED <<watch, phase, msClientRef, isListening, transcript,
                   messages, permissionGranted, connectionError,
                   sessionActive, probes, clientsCreated, registrations>>

-----------------------------------------------------------------------------
(* Specifications *)

Next ==
    \/ Mount
    \/ Unmount
    \/ DetachedEvent
    \/ MountProbeSettles
    \/ StartGranted
    \/ StartAwaitsProbe
    \/ StartResumes
    \/ Stop
    \/ Submit
    \/ SetInputText
    \/ OnOpen
    \/ OnReady
    \/ OnAudio
    \/ OnResponseText
    \/ OnTranscript
    \/ UserAudioReady
    \/ OnSessionEnded
    \/ OnClose
    \/ OnError

Spec == Init /\ [][Next]_vars

\* The same behaviours, with the history variable recording fewer operations.
SpecTranscript == InitWatching({"ontranscript"}) /\ [][Next]_vars

SpecResponse == InitWatching({"onresponsetext"}) /\ [][Next]_vars

SpecSubmit == InitWatching({"submit"}) /\ [][Next]_vars

SpecClose == InitWatching({"onclose"}) /\ [][Next]_vars

SpecStart ==
    InitWatching({"start", "start-await", "start-resume"}) /\ [][Next]_vars

SpecStop == InitWatching({"stop", "unmount"}) /\ [][Next]_vars

SpecMount == InitWatching({"mount"}) /\ [][Next]_vars

SpecSession ==
    InitWatching({"start", "start-resume", "stop", "onsessionended", "onclose",
                  "onerror"}) /\ [][Next]_vars

\* The handlers called directly, as a test of the component would call them.
NextDirect == Next \/ StopWhileIdle

SpecDirect == InitWatching({"stop"}) /\ [][NextDirect]_vars

NextDirectSubmit == Next \/ SubmitWhileBlank

SpecDirectSubmit == InitWatching({"submit"}) /\ [][NextDirectSubmit]_vars

\* The vendor's createClient may also yield no client.
NextNoClient == Next \/ MountClientMissing

SpecNoClient == InitWatching({"start"}) /\ [][NextNoClient]_vars

-----------------------------------------------------------------------------
(* Properties *)

UserMessage(text) == [type |-> "user", text |-> text]
AgentMessage(text) == [type |-> "agent", text |-> text]

\* C1: a final transcript event with non-empty text appends exactly one user
\* message with the event's text at the end of the message list, so these
\* messages stand in the order of their events; a final transcript event
\* with empty text appends nothing.
C1_FinalTranscriptAppends ==
    [][(last'.op = "ontranscript" /\ Truthy(last'.fin)) =>
         IF last'.text # <<>>
         THEN messages' = Append(messages, UserMessage(last'.text))
         ELSE messages' = messages]_vars

C1_Witness ==
    /\ last.op = "ontranscript"
    /\ Truthy(last.fin)
    /\ last.text = <<"a", " ">>
    /\ Len(messages) = 2
    /\ messages[1].type = "agent"
    /\ messages[2] = UserMessage(<<"a", " ">>)

\* C2: a non-final transcript event overwrites PartialTranscript with its
\* text and leaves the message list, SessionState and ConnectionError as
\* they were.
C2_PartialTranscriptOnlyOverwrites ==
    [][(last'.op = "ontranscript" /\ ~Truthy(last'.fin)) =>
         /\ transcript' = last'.text
         /\ messages' = messages
         /\ isListening' = isListening
         /\ connectionError' = connectionError]_vars

C2_Witness ==
    /\ last.op = "ontranscript"
    /\ last.fin = "false"
    /\ last.text = <<"a", " ">>
    /\ transcript = <<"a", " ">>
    /\ messages = <<>>
    /\ isListening

\* C3: a final response-text event appends exactly one agent message with
\* the event's text, whatever the text, at the end of the message list; a
\* non-final response-text event changes no state at all.
C3_ResponseTextAppendsWhenFinal ==
    [][last'.op = "onresponsetext" =>
         IF Truthy(last'.fin)
         THEN messages' = Append(messages, AgentMessage(last'.text))
         ELSE UNCHANGED <<phase, msClientRef, inputText, isListening,
                          transcript, messages, permissionGranted,
                          connectionError, sessionActive, probes,
                          clientsCreated, registrations>>]_vars

C3_Witness ==
    /\ last.op = "onresponsetext"
    /\ Truthy(last.fin)
    /\ last.text = <<>>
    /\ Len(messages) = 2
    /\ messages[1].type = "user"
    /\ messages[2] = AgentMessage(<<>>)

\* C4 as stated: after a close event with code 1000 ConnectionError is null,
\* whatever came before the close.
C4_NormalCloseLeavesErrorNull ==
    (last.op = "onclose" /\ last.code = 1000) => connectionError = NULL

\* C4 as amended: a close event with code 1000 does not touch
\* ConnectionError; it is null after the close exactly when it was null
\* before it.
C4_NormalCloseKeepsError ==
    [][(last'.op = "onclose" /\ last'.code = 1000) =>
         connectionError' = connectionError]_vars

C4_Witness ==
    /\ last.op = "onclose"
    /\ last.code = 1000
    /\ last.wasListening
    /\ connectionError = NULL

\* C5: a close event with a code other than 1000, in any state, sets
\* SessionState to idle and ConnectionError to a non-empty string that
\* contains the code and the reason, or 'Unknown' for an empty reason.
DecimalOf(code) ==
    CASE code = 1000 -> <<"1", "0", "0", "0">>
      [] code = 1006 -> <<"1", "0", "0", "6">>

C5_AbnormalCloseSetsError ==
    (last.op = "onclose" /\ last.code # 1000) =>
        /\ ~isListening
        /\ ~connectionError.isNull
        /\ connectionError.str # <<>>
        /\ Contains(connectionError.str, DecimalOf(last.code))
        /\ Contains(connectionError.str,
                    IF last.reason = <<>> THEN <<"Unknown">> ELSE last.reason)

C5_Witness ==
    /\ last.op = "onclose"
    /\ last.code = 1006
    /\ last.reason = <<>>
    /\ last.wasListening
    /\ ~isListening
    /\ connectionError =
         Str(<<"Connection closed unexpectedly (code: ", "1", "0", "0", "6",
               "). Reason: ", "Unknown">>)

C7_StopIsIdempotent ==
    [][last'.op = "stop" =>
         /\ ~isListening'
         /\ ~sessionActive'
         /\ messages' = messages
         /\ connectionError' = connectionError]_vars

C7_Witness ==
    /\ last.op = "stop"
    /\ last.afterStop
    /\ last.afterStopOfSession
    /\ ~last.wasListening
    /\ ~isListening

\* C8: unmounting while listening stops the client's session.
C8_UnmountStopsSession ==
    (last.op = "unmount" /\ last.wasListening) =>
        (last.calls = <<"stop">> /\ ~sessionActive)

\* C9: SessionState is listening only while the client holds a session.
C9_ListeningImpliesSession ==
    isListening => sessionActive

C9_Witness ==
    /\ isListening
    /\ sessionActive
    /\ last.op = "start"
    /\ Len(messages) > 0

\* C10: every step of the mounted component keeps the message list as a
\* prefix of the new one and adds at most one message.
C10_MessagesAppendOnly ==
    [][phase' # "unmounted" =>
         /\ IsPrefix(messages, messages')
         /\ Len(messages') <= Len(messages) + 1]_vars

C10_Witness ==
    /\ last.op = "submit"
    /\ Len(messages) = 2
    /\ messages[1] = AgentMessage(<<"a", " ">>)
    /\ messages[2] = UserMessage(<<"a", " ">>)

\* C11: the client is created at most once and every handler is registered
\* at most once, however often the mount effect runs; once the effect has
\* run there is exactly one client with exactly one handler per event, so
\* the client's event reaches one handler.
C11_ClientCreatedOnce ==
    /\ clientsCreated <= 1
    /\ \A e \in EventNames : registrations[e] <= 1
    /\ phase # "initial" =>
          /\ msClientRef = "client"
          /\ clientsCreated = 1
          /\ \A e \in EventNames : registrations[e] = 1

\* The effect has run twice (StrictMode), and an event has been handled.
C11_Witness ==
    /\ probes.mount = 2
    /\ clientsCreated = 1
    /\ \A e \in EventNames : registrations[e] = 1
    /\ Len(messages) = 1

\* C12: the client's start() is called only in a step of a start action,
\* and only such a step begins a session; a session-ended, close or error
\* event calls nothing.
StartActions == {"start", "start-resume"}

C12_NoAutomaticRetry ==
    [][/\ Called(last'.calls, "start") => last'.op \in StartActions
       /\ (~sessionActive /\ sessionActive') => last'.op \in StartActions
       /\ last'.op \in {"onsessionended", "onclose", "onerror"} =>
             (last'.calls = <<>> /\ (sessionActive' => sessionActive))]_vars

\* An error event has ended a listening session and nothing was restarted.
C12_Witness ==
    /\ last.op = "onerror"
    /\ last.calls = <<>>
    /\ ~isListening
    /\ ~sessionActive
    /\ connectionError = Str(ConnectionErrored)
    /\ Len(messages) > 0

\* C13: while the component is mounted, SessionState changes only in a
\* step of a start action, a stop action or a session-ended, close or error
\* event; every other step (the open, ready, audio, user-audio-ready,
\* transcript and response-text events, the text submit, the input and the
\* permission probe) leaves it as it was; and only a start action moves it
\* from idle to listening.
SessionStateChangers ==
    {"start", "start-resume", "stop", "onsessionended", "onclose", "onerror"}

C13_SessionStateChangesOnlyByLifecycle ==
    [][phase' # "unmounted" =>
         /\ isListening' # isListening => last'.op \in SessionStateChangers
         /\ (~isListening /\ isListening') => last'.op \in StartActions]_vars

\* Listening has survived a transcript event, a message and a typed input.
C13_Witness ==
    /\ isListening
    /\ last.op = "other"
    /\ transcript # <<>>
    /\ Len(messages) > 0
    /\ inputText # <<>>

\* C14: a start action that calls the client's start() ends idle, as it
\* began, with ConnectionError equal to the start-failure message when
\* start() throws, and ends listening with ConnectionError null when it
\* does not.
C14_StartOutcome ==
    [][(last'.op \in StartActions /\ Called(last'.calls, "start")) =>
         IF last'.threw
         THEN /\ ~isListening
              /\ ~isListening'
              /\ connectionError' = Str(StartFailed)
         ELSE /\ isListening'
              /\ connectionError' = NULL]_vars

\* start() has thrown in a start action that began with an error showing.
C14_Witness ==
    /\ last.op = "start"
    /\ last.threw
    /\ last.calls = <<"start">>
    /\ ~isListening
    /\ connectionError = Str(StartFailed)
    /\ Len(messages) > 0

\* C15: a start action with permission granted and a null client handle
\* calls nothing, leaves SessionState idle and the client without a
\* session, sets ConnectionError to the client-initialization message, and
\* leaves the button offering the start action.
StartOffered == phase = "mounted" /\ ~isListening

C15_StartWithoutClient ==
    [][(last'.op = "start" /\ msClientRef = "null") =>
         /\ last'.calls = <<>>
         /\ ~isListening'
         /\ ~sessionActive'
         /\ connectionError' = Str(ClientInitFailed)
         /\ StartOffered'
         /\ permissionGranted']_vars

C15_Witness ==
    /\ last.op = "start"
    /\ msClientRef = "null"
    /\ permissionGranted
    /\ ~isListening
    /\ connectionError = Str(ClientInitFailed)
    /\ inputText # <<>>

\* C16: a text submit makes no client call and changes neither
\* SessionState, ConnectionError nor PartialTranscript; with an input that
\* is not blank it appends exactly one user message holding the input as
\* typed and empties the input field; with an empty or blank input it
\* changes nothing.
IsBlank(s) == \A i \in 1..Len(s) : s[i] = " "

C16_SubmitEchoesLocally ==
    [][last'.op = "submit" =>
         /\ last'.calls = <<>>
         /\ UNCHANGED <<isListening, connectionError, transcript,
                        sessionActive, permissionGranted>>
         /\ IF IsBlank(last'.text)
            THEN UNCHANGED <<messages, inputText>>
            ELSE /\ messages' = Append(messages, UserMessage(last'.text))
                 /\ inputText' = <<>>]_vars

C16_Witness ==
    /\ last.op = "submit"
    /\ last.text = <<"a", " ">>
    /\ inputText = <<>>
    /\ Len(messages) = 2
    /\ messages[2] = UserMessage(<<"a", " ">>)
    /\ isListening
    /\ transcript # <<>>

\* handleSubmit has run on a blank input and changed nothing.
C16_BlankWitness ==
    /\ last.op = "submit"
    /\ last.text = <<" ">>
    /\ inputText = <<" ">>
    /\ messages = <<>>

\* C17: when a stop action has ended a listening session and the next step
\* is a start action that succeeds, no partial transcript is displayed
\* (PartialTranscript non-empty while listening): the one of the earlier
\* session was cleared, and no transcript event has arrived since.
Displayed == isListening /\ transcript # <<>>

C17_RestartShowsNoOldTranscript ==
    [][(/\ last.op = "stop"
        /\ last.wasListening
        /\ last'.op = "start"
        /\ Called(last'.calls, "start")
        /\ ~last'.threw) => ~Displayed']_vars

\* C18: a start action issued while permission is not granted makes no
\* client call and changes neither SessionState nor the client's session,
\* neither when it is issued nor when its probe settles, granted or denied;
\* a session begins only in a start action issued with permission granted.
C18_UngrantedStartNeverStartsClient ==
    [][/\ last'.op \in {"start-await", "start-resume"} =>
             /\ last'.calls = <<>>
             /\ UNCHANGED <<isListening, sessionActive>>
       /\ (~sessionActive /\ sessionActive') =>
             (last'.op = "start" /\ permissionGranted)]_vars

\* The probe of a waiting start action was granted, and nothing started.
C18_Witness ==
    /\ last.op = "start-resume"
    /\ last.granted
    /\ last.calls = <<>>
    /\ permissionGranted
    /\ ~isListening
    /\ ~sessionActive

\* C19: every transcript event, final or not, sets PartialTranscript to the
\* event's text; right after a final one with non-empty text it equals the
\* text of the last message; and no other step of the mounted component
\* changes it.
C19_TranscriptAlwaysOverwritten ==
    [][/\ last'.op = "ontranscript" =>
             /\ transcript' = last'.text
             /\ (Truthy(last'.fin) /\ last'.text # <<>>) =>
                   /\ Len(messages') > 0
                   /\ messages'[Len(messages')].text = transcript'
       /\ (last'.op # "ontranscript" /\ phase' # "unmounted") =>
             transcript' = transcript]_vars

\* A final transcript is both the last message and the partial transcript
\* on display.
C19_Witness ==
    /\ last.op = "ontranscript"
    /\ last.fin = "true"
    /\ isListening
    /\ transcript = <<"a", " ">>
    /\ Len(messages) = 1
    /\ messages[1] = UserMessage(transcript)

====
